---- MODULE Spec2Model ----
\* Model of the jambi migration engine (src/jambi/jambi.py): the version
\* table, the migrations directory, and the top-level operations init,
\* inspect, latest, makemigration and upgrade.  Every operation is one
\* top-level invocation (one wish of the command line), executed from its
\* first line to its return or to the exception that leaves it.
EXTENDS Integers, Sequences, FiniteSets, TLC

\* ------------------------------------------------------------------ bounds
\* most directory entries in the migrations folder
MaxFiles == 2
\* most migration applications committed in one behaviour
MaxApplied == 3
\* largest integer upgrade target tried
MaxTarget == 2

\* --------------------------------------------------------------- strings
\* A string is a sequence of tokens: single characters, plus the two
\* substrings the code searches for, "version_" and ".py", as one token each.
\* "U+0663" is the one character ARABIC-INDIC DIGIT THREE: a decimal digit
\* (category Nd) outside ASCII, which \d and int() take as the digit 3.
DigitChars ==
  {"0", "1", "2", "3", "4", "5", "6", "7", "8", "9", "U+0663"}

IsDigit(c) == c \in DigitChars

DigitVal(c) ==
  CASE c = "0" -> 0 [] c = "1" -> 1 [] c = "2" -> 2 [] c = "3" -> 3
    [] c = "4" -> 4 [] c = "5" -> 5 [] c = "6" -> 6 [] c = "7" -> 7
    [] c = "8" -> 8 [] c = "9" -> 9 [] c = "U+0663" -> 3

DigitChar(d) ==
  CASE d = 0 -> "0" [] d = 1 -> "1" [] d = 2 -> "2" [] d = 3 -> "3"
    [] d = 4 -> "4" [] d = 5 -> "5" [] d = 6 -> "6" [] d = 7 -> "7"
    [] d = 8 -> "8" [] d = 9 -> "9"

\* s without its leading whitespace
RECURSIVE LStrip(_)
LStrip(s) == IF Len(s) > 0 /\ s[1] = " " THEN LStrip(Tail(s)) ELSE s

\* s without its trailing whitespace
RECURSIVE RStrip(_)
RStrip(s) ==
  IF Len(s) > 0 /\ s[Len(s)] = " " THEN RStrip(SubSeq(s, 1, Len(s) - 1)) ELSE s

\* the literal int() reads has a minus sign
Negative(s) ==
  LET t == RStrip(LStrip(s)) IN Len(t) > 0 /\ t[1] = "-"

\* the literal int() reads, without surrounding whitespace and sign
Unsigned(s) ==
  LET t == RStrip(LStrip(s)) IN
  IF Len(t) > 0 /\ t[1] \in {"+", "-"} THEN Tail(t) ELSE t

\* int(s) succeeds: optional whitespace around an optional sign and a
\* non-empty run of decimal digits, with single underscores between digits
IsInt(s) ==
  LET d == Unsigned(s) IN
  /\ Len(d) > 0
  /\ \A i \in 1..Len(d) :
       \/ IsDigit(d[i])
       \/ /\ d[i] = "_"
          /\ 1 < i /\ i < Len(d)
          /\ IsDigit(d[i - 1]) /\ IsDigit(d[i + 1])

\* the value of a run of decimal digits and underscores
RECURSIVE DigitsValue(_)
DigitsValue(d) ==
  IF Len(d) = 0 THEN 0
  ELSE IF d[Len(d)] = "_" THEN DigitsValue(SubSeq(d, 1, Len(d) - 1))
  ELSE 10 * DigitsValue(SubSeq(d, 1, Len(d) - 1)) + DigitVal(d[Len(d)])

\* int(s) where it succeeds
IntOf(s) ==
  IF Negative(s) THEN 0 - DigitsValue(Unsigned(s)) ELSE DigitsValue(Unsigned(s))

\* str(n)
RECURSIVE Str(_)
Str(n) ==
  IF n < 0 THEN <<"-">> \o Str(0 - n)
  ELSE IF n < 10 THEN <<DigitChar(n)>>
  ELSE Str(n \div 10) \o <<DigitChar(n % 10)>>

\* the literal 'latest'
LatestRef == <<"latest">>

\* an absent command-line argument (Python's None)
NoneRef == <<"None">>

\* ------------------------------------------------------- find_migrations
\* n.startswith('version_') and n.endswith('.py')
is_valid_migration_name(n) ==
  Len(n) > 0 /\ n[1] = "version_" /\ n[Len(n)] = ".py"

\* f.replace('.py', ''): every occurrence is removed
StripPy(f) == SelectSeq(f, LAMBDA c : c # ".py")

\* positions where r'version_(\d+)' matches in mn
MatchStarts(mn) ==
  {i \in 1..Len(mn) : mn[i] = "version_" /\ i < Len(mn) /\ IsDigit(mn[i + 1])}

\* the end of the maximal run of digits that starts at position i
RECURSIVE DigitRunEnd(_, _)
DigitRunEnd(mn, i) ==
  IF i < Len(mn) /\ IsDigit(mn[i + 1]) THEN DigitRunEnd(mn, i + 1) ELSE i

\* re.search(r'version_(\d+)', mn) finds a match (otherwise .group raises
\* and the name is skipped)
HasVersion(mn) == MatchStarts(mn) # {}

\* int(re.search(r'version_(\d+)', mn).group(1)): the leftmost match
ParseVersion(mn) ==
  LET i == CHOOSE k \in MatchStarts(mn) : \A j \in MatchStarts(mn) : k <= j
  IN IntOf(SubSeq(mn, i + 1, DigitRunEnd(mn, i + 1)))

\* importlib.import_module finds the module mn of the migrations package:
\* the folder holds the file mn + '.py', and mn has no dot (a dotted name is
\* looked up as a submodule of a package, which no file of the folder is)
ModuleFound(mn, filenames) ==
  /\ \A i \in 1..Len(mn) : mn[i] # "."
  /\ \E k \in 1..Len(filenames) : filenames[k] = mn \o <<".py">>

\* the names of the listing that find_migrations imports
Imported(filenames) ==
  {i \in 1..Len(filenames) :
     /\ is_valid_migration_name(filenames[i])
     /\ HasVersion(StripPy(filenames[i]))
     /\ ModuleFound(StripPy(filenames[i]), filenames)}

\* which file's code raises when it is imported (a syntax error, an
\* exception at its top level): none (0), or the last entry that is
\* imported, after every other import has run
ImportFailures(filenames) ==
  {0} \cup {i \in Imported(filenames) : \A j \in Imported(filenames) : j <= i}

\* the loop over filepaths from the i-th entry on: one (module_name, ver,
\* module) per parseable name, in listing order; the module is identified by
\* its name.  The import of an entry raises when its module is not found or
\* when its code raises, and the exception leaves the loop.
RECURSIVE CollectMigrations(_, _, _)
CollectMigrations(filenames, i, imp) ==
  IF i > Len(filenames) THEN [raised |-> FALSE, list |-> <<>>]
  ELSE LET f == filenames[i]
           mn == StripPy(f)
       IN IF ~is_valid_migration_name(f)
          THEN CollectMigrations(filenames, i + 1, imp)
          ELSE IF ~HasVersion(mn)
          THEN CollectMigrations(filenames, i + 1, imp)
          ELSE IF ~ModuleFound(mn, filenames) \/ imp = i
          THEN [raised |-> TRUE, list |-> <<>>]
          ELSE LET rest == CollectMigrations(filenames, i + 1, imp)
               IN [raised |-> rest.raised,
                   list |-> IF rest.raised THEN <<>>
                            ELSE <<[n |-> mn, v |-> ParseVersion(mn)]>>
                                   \o rest.list]

\* variant: m is inserted before the elements of equal key
RECURSIVE InsertSorted_lt(_, _)
InsertSorted_lt(s, m) ==
  IF Len(s) = 0 THEN <<m>>
  ELSE IF Head(s).v < m.v THEN <<Head(s)>> \o InsertSorted_lt(Tail(s), m)
  ELSE <<m>> \o s

\* insert m after every element whose key is <= m's key (stable)
RECURSIVE InsertSorted(_, _)
InsertSorted(s, m) ==
  IF Len(s) = 0 THEN <<m>>
  ELSE IF Head(s).v <= m.v THEN <<Head(s)>> \o InsertSorted(Tail(s), m)
  ELSE <<m>> \o s

\* sorted(migrations, key=lambda x: x[1]): a stable sort by version
RECURSIVE SortedByVersion(_)
SortedByVersion(s) ==
  IF Len(s) = 0 THEN <<>>
  ELSE InsertSorted(SortedByVersion(SubSeq(s, 1, Len(s) - 1)), s[Len(s)])

\* find_migrations() on the configured location fold ("dir": a folder that
\* can be listed, "missing": nothing there, "notdir": something that is not
\* a folder): returns None (none = TRUE) after FileNotFoundError, lets every
\* other exception of os.listdir and of the imports through (raised = TRUE),
\* else returns the sorted list
find_migrations(fold, filenames, imp) ==
  IF fold = "missing"
  THEN [none |-> TRUE, raised |-> FALSE, exc |-> "", list |-> <<>>]
  ELSE IF fold # "dir"
  THEN [none |-> FALSE, raised |-> TRUE, exc |-> "NotADirectoryError",
        list |-> <<>>]
  ELSE LET c == CollectMigrations(filenames, 1, imp) IN
       IF c.raised
       THEN [none |-> FALSE, raised |-> TRUE, exc |-> "ImportError",
             list |-> <<>>]
       ELSE [none |-> FALSE, raised |-> FALSE, exc |-> "",
             list |-> SortedByVersion(c.list)]

\* ------------------------------------------------------------------ state
VARIABLES
  folder,     \* what is at the configured migrations location
  listing,    \* os.listdir of the folder: file names, in listing order
  table,      \* the version table (JambiModel, db_table 'jambi') exists
  rows,       \* the committed rows of the table: the set of ref values
  applied,    \* the committed migration applications, in commit order
  connOpen,   \* the last operation left its database connection open
  initRan,    \* init has run to its end
  initTwice,  \* init has run to its end more than once
  fresh,      \* the database started without a version table
  procs,      \* concurrent invocations: where each is in its operation
  last        \* what the last operation did, as its caller observes it

vars ==
  <<folder, listing, table, rows, applied, connOpen, initRan, initTwice,
    fresh, procs, last>>

\* file names a migrations folder may hold
Names ==
  { <<"version_", "1", ".py">>,
    <<"version_", "2", ".py">>,
    <<"version_", "1", "U+0663", ".py">>,
    <<"version_", "0", ".py">>,
    <<"version_", "1", "x", ".py">>,
    <<"version_", "x", ".py">> }

\* more file names, for discovery on its own: a name without the suffix, a
\* name with the suffix twice, and a dotted name
DiscoveryNames ==
  Names \cup { <<"version_", "2">>,
               <<"version_", "1", ".py", ".py">>,
               <<"version_", "1", ".", "2", ".py">> }

\* directory listings: up to MaxFiles distinct names of ns, in any order
ListingsOf(ns) ==
  UNION { {l \in [1..k -> ns] : \A i, j \in 1..k : i # j => l[i] # l[j]}
          : k \in 0..MaxFiles }

Listings == ListingsOf(Names)

\* what may be at the configured location
Folders == {"dir", "missing", "notdir"}

\* ref values a version table may hold before the first operation
StoredRefs == { <<"2">>, <<"x">>, <<"-", "1">> }

\* the targets a caller may pass to upgrade
Refs ==
  {NoneRef, LatestRef, <<"x">>, <<"-", "1">>, <<" ", "+", "1", "_", "0">>}
    \cup {Str(n) : n \in 1..MaxTarget}

\* the state of `last` between two invocations; cur and ret are meaningful
\* when curNone and retNone are FALSE, and prev tells what the invocation
\* before was
NoOp ==
  [op |-> "none", arg |-> <<>>, ref |-> <<>>, raised |-> FALSE, exc |-> "",
   ret |-> 0, retNone |-> TRUE, logs |-> {},
   cur |-> 0, curNone |-> TRUE, invoked |-> <<>>, tx |-> FALSE,
   found |-> <<>>, prev |-> "none"]

\* the concurrent invocations of upgrade
Upgraders == {"u1", "u2"}

\* the concurrent invocations: the upgraders and one init
Procs == Upgraders \cup {"init"}

\* an invocation that has not started: snap, del and ins are the rows its
\* DELETE is to delete, has deleted and its INSERT has inserted, uncommitted
Idle ==
  [pc |-> "idle",
   plan |-> [db |-> [rows |-> {}, applied |-> <<>>], raised |-> FALSE,
             exc |-> "", tx |-> FALSE, connOpen |-> FALSE,
             cur |-> 0, curNone |-> TRUE, invoked |-> <<>>,
             logs |-> {}, batch |-> <<>>],
   snap |-> {}, del |-> {}, ins |-> {}]

\* the state before the first operation, the folder's listing being one
\* of ls
Start(ls) ==
  /\ folder \in Folders
  /\ listing \in ls
  /\ (folder = "dir" \/ listing = <<>>)
  /\ \/ table = FALSE /\ rows = {}
     \/ table = TRUE /\ rows = {}
     \/ table = TRUE /\ \E s \in StoredRefs : rows = {s}
  /\ applied = <<>>
  /\ connOpen = FALSE
  /\ initRan = FALSE
  /\ initTwice = FALSE
  /\ fresh = ~table
  /\ procs = [u \in Procs |-> Idle]
  /\ last = NoOp

Init == Start(Listings)

\* the operation was an upgrade that committed its transaction
Upgraded(l) == l.op = "upgrade" /\ l.tx /\ ~l.raised

\* no invocation is running: the command line takes the next wish
Ready == last.op = "none"

\* ------------------------------------------------------------------- main
\* what the next invocation can tell of the one that ends
Summary(l) ==
  IF l.op = "init" /\ ~l.raised THEN "init"
  ELSE IF Upgraded(l) THEN "upgraded"
  ELSE "other"

\* main() ends, by the return of wish_from_kwargs or by the exception that
\* leaves it: the process is gone, and with it the connection it left open
exit ==
  /\ ~Ready
  /\ last' = [NoOp EXCEPT !.prev = Summary(last)]
  /\ connOpen' = FALSE
  /\ UNCHANGED <<folder, listing, table, rows, applied, initRan, initTwice,
                 fresh, procs>>

\* -------------------------------------------------------------- discovery
\* one call of find_migrations(): last.found is the list it returns
discover ==
  /\ Ready
  /\ \E imp \in ImportFailures(listing) :
     \E r \in {find_migrations(folder, listing, imp)} :
     /\ last' = [NoOp EXCEPT !.op = "find_migrations", !.raised = r.raised,
                             !.exc = r.exc, !.retNone = r.none,
                             !.logs = IF r.none THEN {"no_folder"} ELSE {},
                             !.found = r.list,
                             !.prev = last.prev]
     /\ UNCHANGED <<folder, listing, table, rows, applied, connOpen, initRan,
                    initTwice, fresh, procs>>

\* discovery on its own, over the wider set of file names
InitDiscovery == Start(ListingsOf(DiscoveryNames))

NextDiscovery == discover \/ exit

SpecDiscovery == InitDiscovery /\ [][NextDiscovery]_vars

\* ---------------------------------------------------------------- inspect
\* the row JambiModel.select().limit(1) may return: any row, as the query
\* has no ORDER BY
Picks(rs) == IF rs = {} THEN {<<>>} ELSE rs

\* variant: a table without a row reads as version 0, and so does no table
inspect_result_zero(t, rs, pick) ==
  IF ~t \/ rs = {} THEN [none |-> FALSE, v |-> 0, logs |-> {"at_version"}]
  ELSE IF IsInt(pick)
       THEN [none |-> FALSE, v |-> IntOf(pick), logs |-> {"at_version"}]
       ELSE [none |-> TRUE, v |-> 0, logs |-> {"not_valid", "at_version"}]

\* variant: an unparsable value is reported like a table without a row
inspect_result_quiet(t, rs, pick) ==
  IF ~t THEN [none |-> TRUE, v |-> 0, logs |-> {"run_init"}]
  ELSE IF rs = {} \/ ~IsInt(pick)
       THEN [none |-> TRUE, v |-> 0, logs |-> {"not_migrated"}]
       ELSE [none |-> FALSE, v |-> IntOf(pick), logs |-> {"at_version"}]

\* inspect(): none = TRUE is the result None; v is the integer result
inspect_result(t, rs, pick) ==
  IF ~t THEN [none |-> TRUE, v |-> 0, logs |-> {"run_init"}]
  ELSE IF rs = {} THEN [none |-> TRUE, v |-> 0, logs |-> {"not_migrated"}]
  ELSE IF IsInt(pick)
       THEN [none |-> FALSE, v |-> IntOf(pick), logs |-> {"at_version"}]
       ELSE [none |-> TRUE, v |-> 0, logs |-> {"not_valid", "at_version"}]

inspect ==
  /\ Ready
  /\ \E pick \in Picks(rows) :
       \E r \in {inspect_result(table, rows, pick)} :
       /\ last' = [NoOp EXCEPT !.op = "inspect",
                               !.ret = r.v, !.retNone = r.none,
                               !.cur = r.v, !.curNone = r.none,
                               !.logs = r.logs,
                               !.prev = last.prev]
       /\ connOpen' = FALSE
       /\ UNCHANGED <<folder, listing, table, rows, applied, initRan, initTwice,
                      fresh, procs>>

\* ------------------------------------------------------------------- init
\* JambiModel.create(ref='0') raises IntegrityError: the primary key '0'
\* is already in the table
CreateConflicts(rs, ref) == ref \in rs

\* how the database may fail init: not at all, or with an error other than
\* IntegrityError in create_tables or in create
InitFailures == {"none", "create_tables", "create"}

\* self.db.create_tables([JambiModel], safe=True), committed on its own
create_tables_result(t, dbfail) ==
  IF dbfail = "create_tables" THEN [table |-> t, raised |-> TRUE]
  ELSE [table |-> TRUE, raised |-> FALSE]

\* JambiModel.create(ref='0'), committed on its own, and the handler of
\* IntegrityError around it
create_result(rs, dbfail) ==
  IF dbfail = "create"
  THEN [rows |-> rs, raised |-> TRUE, logs |-> {}]
  ELSE IF CreateConflicts(rs, Str(0))
  THEN [rows |-> rs, raised |-> FALSE, logs |-> {"already_initialized"}]
  ELSE [rows |-> rs \cup {Str(0)}, raised |-> FALSE, logs |-> {"initialized"}]

\* init(): the two statements one after the other; only IntegrityError is
\* caught, and close() is not reached by another exception
init_result(t, rs, dbfail) ==
  LET made == create_tables_result(t, dbfail) IN
  IF made.raised
  THEN [table |-> made.table, rows |-> rs, raised |-> TRUE,
        exc |-> "DatabaseError", logs |-> {}, connOpen |-> TRUE]
  ELSE LET row == create_result(rs, dbfail) IN
       [table |-> made.table, rows |-> row.rows, raised |-> row.raised,
        exc |-> IF row.raised THEN "DatabaseError" ELSE "",
        logs |-> row.logs, connOpen |-> row.raised]

init ==
  /\ Ready
  /\ \E dbfail \in InitFailures :
     \E r \in {init_result(table, rows, dbfail)} :
     /\ table' = r.table
     /\ rows' = r.rows
     /\ last' = [NoOp EXCEPT !.op = "init", !.raised = r.raised, !.exc = r.exc,
                             !.logs = r.logs, !.prev = last.prev]
     /\ connOpen' = r.connOpen
     /\ initRan' = (initRan \/ ~r.raised)
     /\ initTwice' = (initTwice \/ (initRan /\ ~r.raised))
     /\ UNCHANGED <<folder, listing, applied, fresh, procs>>

\* ----------------------------------------------------------------- latest
\* latest(): find_migrations()[-1][1] on what find_migrations returned;
\* subscripting None raises TypeError and indexing an empty list raises
\* IndexError
latest_result(found) ==
  LET quiet == [raised |-> FALSE, exc |-> "", ret |-> 0, retNone |-> TRUE,
                logs |-> {}]
  IN
  IF found.raised THEN [quiet EXCEPT !.raised = TRUE, !.exc = found.exc]
  ELSE IF found.none
  THEN [quiet EXCEPT !.raised = TRUE, !.exc = "TypeError",
                     !.logs = {"no_folder"}]
  ELSE IF Len(found.list) = 0
  THEN [quiet EXCEPT !.raised = TRUE, !.exc = "IndexError"]
  ELSE [quiet EXCEPT !.ret = found.list[Len(found.list)].v,
                     !.retNone = FALSE, !.logs = {"latest"}]

latest ==
  /\ Ready
  /\ \E imp \in ImportFailures(listing) :
     \E r \in {latest_result(find_migrations(folder, listing, imp))} :
     /\ last' = [NoOp EXCEPT !.op = "latest", !.raised = r.raised,
                             !.exc = r.exc, !.ret = r.ret,
                             !.retNone = r.retNone,
                             !.logs = r.logs, !.prev = last.prev]
     /\ connOpen' = FALSE
     /\ UNCHANGED <<folder, listing, table, rows, applied, initRan, initTwice,
                      fresh, procs>>

\* ---------------------------------------------------------- makemigration
\* 'version_{}.py'.format(ver)
migration_fname(ver) == <<"version_">> \o Str(ver) \o <<".py">>

\* the listing with the entry f at position pos
WithEntry(filenames, f, pos) ==
  SubSeq(filenames, 1, pos - 1) \o <<f>>
    \o SubSeq(filenames, pos, Len(filenames))

\* the listings of the folder once shutil.copyfile has written f: the same
\* when f overwrites an entry, else with f at any position
AfterCopy(filenames, f) ==
  IF \E k \in 1..Len(filenames) : filenames[k] = f THEN {filenames}
  ELSE {WithEntry(filenames, f, pos) : pos \in 1..(Len(filenames) + 1)}

\* makemigration(): latest() + 1 names the new file, the template is copied
\* there (FileNotFoundError without the template), and latest() is called
\* again
makemigration ==
  /\ Ready
  /\ \E imp \in ImportFailures(listing) :
     \E first \in {latest_result(find_migrations(folder, listing, imp))} :
     \E tmpl \in IF first.raised THEN {FALSE} ELSE BOOLEAN :
     /\ IF first.raised
        THEN /\ listing' = listing
             /\ last' = [NoOp EXCEPT !.op = "makemigration", !.raised = TRUE,
                                     !.exc = first.exc, !.logs = first.logs,
                                     !.prev = last.prev]
        ELSE IF ~tmpl
        THEN /\ listing' = listing
             /\ last' = [NoOp EXCEPT !.op = "makemigration", !.raised = TRUE,
                                     !.exc = "FileNotFoundError",
                                     !.logs = first.logs,
                                     !.prev = last.prev]
        ELSE \E after \in AfterCopy(listing, migration_fname(first.ret + 1)) :
             \E imp2 \in ImportFailures(after) :
             \E second \in {latest_result(find_migrations(folder, after, imp2))} :
               /\ Len(after) <= MaxFiles
               /\ listing' = after
               /\ last' = [NoOp EXCEPT !.op = "makemigration",
                                       !.raised = second.raised,
                                       !.exc = second.exc,
                                       !.logs = first.logs
                                                  \cup {"migration_created"}
                                                  \cup second.logs,
                                       !.prev = last.prev]
     /\ connOpen' = FALSE
     /\ UNCHANGED <<folder, table, rows, applied, initRan, initTwice, fresh,
                    procs>>

\* ---------------------------------------------------------------- upgrade
\* variant: the argument is passed on as it is
wish_ref_raw(arg) == arg

\* kwargs.pop('ref') or 'latest': an absent or empty argument is 'latest'
wish_ref(arg) == IF arg = NoneRef \/ arg = <<>> THEN LatestRef ELSE arg

\* migrations[-1][1] if any(migrations) else 0
latest_ref(ms) == IF Len(ms) > 0 THEN ms[Len(ms)].v ELSE 0

\* variant: the filter keeps every migration, applied or not
NewerThan_all(ms, current_ref) == ms

\* variant: the filter also keeps the migration at the current version
NewerThan_ge(ms, current_ref) == SelectSeq(ms, LAMBDA x : x.v >= current_ref)

\* filter(lambda x: x[1] > current_ref, migrations)
NewerThan(ms, current_ref) == SelectSeq(ms, LAMBDA x : x.v > current_ref)

\* variant: the filter drops the migration at the target version
UpTo_lt(ms, ref) == SelectSeq(ms, LAMBDA x : x.v < ref)

\* filter(lambda x: x[1] <= ref, migrations)
UpTo(ms, ref) == SelectSeq(ms, LAMBDA x : x.v <= ref)

\* how a run of a batch of n migrations may fail: not at all, or at the
\* at-th migration, while its upgrade() produces the operations or while
\* migrate() applies them
Failures(n) ==
  {[at |-> 0, phase |-> "none"]}
    \cup {[at |-> k, phase |-> p] : k \in 1..n, p \in {"produce", "apply"}}

\* the loop over the batch inside the transaction, from the i-th migration:
\* db is the transaction's view of the database
RECURSIVE RunMigrations(_, _, _, _)
RunMigrations(batch, i, fail, run) ==
  IF i > Len(batch) THEN run
  ELSE LET m == batch[i]
           called == [run EXCEPT !.invoked = Append(@, m.n)]
       IN IF fail.at = i /\ fail.phase = "produce"
          THEN [called EXCEPT !.raised = TRUE]
          ELSE IF fail.at = i /\ fail.phase = "apply"
          THEN [called EXCEPT !.raised = TRUE,
                  !.db.applied = Append(@, [n |-> m.n, v |-> m.v, full |-> FALSE])]
          ELSE RunMigrations(batch, i + 1, fail,
                  [called EXCEPT
                     !.db.applied = Append(@, [n |-> m.n, v |-> m.v, full |-> TRUE])])

\* variant: the new row is inserted without deleting the old ones
set_version_keep(db, ref) == [db EXCEPT !.rows = @ \cup {Str(ref)}]

\* __set_version(ref): delete every row, then insert str(ref)
set_version(db, ref) == [db EXCEPT !.rows = {Str(ref)}]

\* variant: the writes made before the exception stay committed
atomic_commit(before, after, raised) == after

\* with self.db.atomic(): commit the body's writes, or roll all of them back
\* when the body raises
atomic(before, after, raised) == IF raised THEN before ELSE after

\* ref is a target upgrade accepts: an integer or 'latest'
ValidRef(ref) == IsInt(ref) \/ ref = LatestRef

\* upgrade(ref) gets as far as find_migrations(): the target is accepted
\* and inspect() returns a version
Discovers(ref, t, rs, pick) ==
  ValidRef(ref) /\ ~inspect_result(t, rs, pick).none

\* upgrade(ref) up to the transaction, on the database db = [rows, applied]:
\* the outcome when it returns or raises before it, else the batch to run;
\* found is what find_migrations() does when the code reaches the call
upgrade_plan(ref, found, t, db, pick) ==
  LET quiet == [db |-> db, raised |-> FALSE, exc |-> "", tx |-> FALSE,
                connOpen |-> FALSE, cur |-> 0, curNone |-> TRUE,
                invoked |-> <<>>, logs |-> {}, batch |-> <<>>]
  IN
  IF ~ValidRef(ref)
  THEN [quiet EXCEPT !.logs = {"unable_to_parse"}]
  ELSE
  LET current == inspect_result(t, db.rows, pick) IN
  IF current.none
  THEN [quiet EXCEPT !.logs = current.logs \cup {"unable_to_inspect"}]
  ELSE
  LET current_ref == current.v
      seen == [quiet EXCEPT !.cur = current_ref, !.curNone = FALSE,
                            !.logs = current.logs]
  IN
  IF found.raised
  THEN [seen EXCEPT !.raised = TRUE, !.exc = found.exc]
  ELSE IF found.none
  THEN [seen EXCEPT !.raised = TRUE, !.exc = "TypeError",
                    !.logs = current.logs \cup {"no_folder"}]
  ELSE
  LET newest == latest_ref(found.list)
      newer == NewerThan(found.list, current_ref)
      ahead == IF current_ref > newest THEN {"ahead"} ELSE {}
  IN
  IF ~(current_ref > newest) /\ current_ref = newest
  THEN [seen EXCEPT !.logs = current.logs \cup {"up_to_date"}]
  ELSE
  LET target == IF ref = LatestRef THEN newest ELSE IntOf(ref)
      batch == UpTo(newer, target)
  IN
  IF Len(batch) = 0
  THEN [seen EXCEPT !.logs = current.logs \cup ahead \cup {"up_to_date"}]
  ELSE [seen EXCEPT !.logs = current.logs \cup ahead \cup {"migrating"},
                    !.batch = batch]

\* upgrade(ref) from the plan on: the transaction over the batch
upgrade_result(plan, fail) ==
  IF Len(plan.batch) = 0 THEN plan
  ELSE
  LET run == RunMigrations(plan.batch, 1, fail,
                           [db |-> plan.db, invoked |-> <<>>, raised |-> FALSE])
      body == IF run.raised THEN run.db
              ELSE set_version(run.db, plan.batch[Len(plan.batch)].v)
  IN [plan EXCEPT !.db = atomic(plan.db, body, run.raised),
                  !.raised = run.raised,
                  !.exc = IF run.raised THEN "MigrationError" ELSE "",
                  !.tx = TRUE,
                  !.connOpen = run.raised,
                  !.invoked = run.invoked]

upgrade ==
  /\ Ready
  /\ \E arg \in Refs :
     \E pick \in Picks(rows) :
     \E imp \in IF Discovers(wish_ref(arg), table, rows, pick)
                 THEN ImportFailures(listing) ELSE {0} :
     \E found \in {find_migrations(folder, listing, imp)} :
       \E plan \in {upgrade_plan(wish_ref(arg), found, table,
                                [rows |-> rows, applied |-> applied], pick)} :
       \E fail \in Failures(Len(plan.batch)) :
       \E r \in {upgrade_result(plan, fail)} :
         /\ Len(r.db.applied) <= MaxApplied
         /\ rows' = r.db.rows
         /\ applied' = r.db.applied
         /\ connOpen' = r.connOpen
         /\ last' = [NoOp EXCEPT !.op = "upgrade", !.arg = arg,
                                 !.ref = wish_ref(arg),
                                 !.raised = r.raised, !.exc = r.exc,
                                 !.logs = r.logs,
                                 !.cur = r.cur, !.curNone = r.curNone,
                                 !.invoked = r.invoked, !.tx = r.tx,
                                 !.prev = last.prev]
         /\ UNCHANGED <<folder, listing, table, initRan, initTwice, fresh, procs>>

\* ---------------------------------------------------------- specification
Next == init \/ inspect \/ latest \/ makemigration \/ upgrade \/ exit

Spec == Init /\ [][Next]_vars

\* ------------------------------------------------- concurrent invocations
\* Two invocations of upgrade() and one of init() on one database, each in
\* its own process and on its own connection.  The database is PostgreSQL at
\* its default isolation level, READ COMMITTED: a statement sees the rows
\* committed when it starts; a DELETE that finds a row deleted by a
\* transaction in progress waits for it, and then skips the row if that
\* transaction committed; an INSERT of a key that a transaction in progress
\* has inserted or deleted waits for it.
\* upgrade() takes these steps: the part before the transaction, whose only
\* database access is inspect() on a connection it closes; db.connect() and
\* the entry of db.atomic(); the loop over the batch; the DELETE and the
\* INSERT of __set_version; the commit.  init() takes two: create_tables
\* and create, each committed on its own.

\* variant: the transaction is entered only if the version read is still
\* the stored one
begin_tx_recheck(plan, rs) == IF Str(plan.cur) \in rs THEN "tx" ELSE "done"

\* where upgrade() is after self.db.connect() and the entry of
\* self.db.atomic(): in the transaction, whatever the table holds by now
begin_tx(plan, rs) == "tx"

\* the rows deleted by transactions in progress other than u's
LockedByOthers(u) == UNION {procs[o].del : o \in Upgraders \ {u}}

\* the rows inserted by transactions in progress other than u's
InsertedByOthers(u) == UNION {procs[o].ins : o \in Upgraders \ {u}}

\* the INSERT of the key ref by u has to wait for a transaction in progress
InsertWaits(u, ref) ==
  \/ ref \in InsertedByOthers(u)
  \/ ref \in rows /\ ref \in LockedByOthers(u)

\* the invocation whose upgrade() has ended with the outcome plan, as its
\* caller observes it
Ended(plan) ==
  [Idle EXCEPT !.pc = "done",
               !.plan = [plan EXCEPT !.db = [rows |-> {}, applied |-> <<>>],
                                     !.batch = <<>>]]

\* the targets the concurrent invocations are given
RaceRefs == {LatestRef, <<"x">>, Str(1)}

\* upgrade(ref) up to the transaction; the rows it has read are not read
\* again
Plan(u) ==
  /\ procs[u].pc = "idle"
  /\ \E arg \in RaceRefs :
     \E pick \in Picks(rows) :
     \E imp \in IF Discovers(wish_ref(arg), table, rows, pick)
                 THEN ImportFailures(listing) ELSE {0} :
     \E found \in {find_migrations(folder, listing, imp)} :
     \E plan \in {upgrade_plan(wish_ref(arg), found, table,
                              [rows |-> rows, applied |-> <<>>], pick)} :
       procs' = [procs EXCEPT ![u] =
                   IF Len(plan.batch) = 0 THEN Ended(plan)
                   ELSE [Idle EXCEPT
                           !.pc = "planned",
                           !.plan = [plan EXCEPT !.db.rows = {}]]]
  /\ UNCHANGED <<folder, listing, table, rows, applied, connOpen, initRan,
                 initTwice, fresh, last>>

\* self.db.connect() and the entry of self.db.atomic()
Begin(u) ==
  /\ procs[u].pc = "planned"
  /\ procs' = [procs EXCEPT ![u].pc = begin_tx(procs[u].plan, rows)]
  /\ UNCHANGED <<folder, listing, table, rows, applied, connOpen, initRan,
                 initTwice, fresh, last>>

\* the loop over the batch; its writes wait in plan.db.applied for the
\* commit, and an exception rolls the transaction back and leaves upgrade()
\* before self.db.close()
Migrate(u) ==
  /\ procs[u].pc = "tx"
  /\ \E fail \in Failures(Len(procs[u].plan.batch)) :
     \E run \in {RunMigrations(procs[u].plan.batch, 1, fail,
                   [db |-> [rows |-> {}, applied |-> <<>>],
                    invoked |-> <<>>, raised |-> FALSE])} :
     \E r \in {[procs[u].plan EXCEPT
                  !.db = atomic([rows |-> {}, applied |-> <<>>], run.db,
                                run.raised),
                  !.raised = run.raised,
                  !.exc = IF run.raised THEN "MigrationError" ELSE "",
                  !.tx = TRUE,
                  !.connOpen = run.raised,
                  !.invoked = run.invoked]} :
       procs' = [procs EXCEPT ![u] =
                   IF r.raised THEN Ended(r)
                   ELSE [@ EXCEPT !.pc = "migrated", !.plan = r]]
  /\ UNCHANGED <<folder, listing, table, rows, applied, connOpen, initRan,
                 initTwice, fresh, last>>

\* JambiModel.delete().execute() starts: it is to delete the rows committed
\* now, and has deleted them unless one is deleted by a transaction in
\* progress
DeleteStart(u) ==
  /\ procs[u].pc = "migrated"
  /\ procs' = [procs EXCEPT ![u] =
                 IF rows \cap LockedByOthers(u) = {}
                 THEN [@ EXCEPT !.pc = "deleted", !.del = rows]
                 ELSE [@ EXCEPT !.pc = "deleting", !.snap = rows]]
  /\ UNCHANGED <<folder, listing, table, rows, applied, connOpen, initRan,
                 initTwice, fresh, last>>

\* the DELETE that waited goes on once no row it is to delete is deleted by
\* a transaction in progress
DeleteRows(u) ==
  /\ procs[u].pc = "deleting"
  /\ procs[u].snap \cap LockedByOthers(u) = {}
  /\ procs' = [procs EXCEPT ![u] =
                 [@ EXCEPT !.pc = "deleted", !.del = procs[u].snap,
                           !.snap = {}]]
  /\ UNCHANGED <<folder, listing, table, rows, applied, connOpen, initRan,
                 initTwice, fresh, last>>

\* JambiModel.create(ref=str(ref)): IntegrityError when the key is a
\* committed row that this transaction has not deleted
Insert(u) ==
  /\ procs[u].pc = "deleted"
  /\ \E ref \in {Str(procs[u].plan.batch[Len(procs[u].plan.batch)].v)} :
       /\ ~InsertWaits(u, ref)
       /\ procs' = [procs EXCEPT ![u] =
                      IF CreateConflicts(rows \ procs[u].del, ref)
                      THEN Ended([procs[u].plan EXCEPT
                                    !.raised = TRUE,
                                    !.exc = "IntegrityError",
                                    !.connOpen = TRUE])
                      ELSE [@ EXCEPT !.pc = "inserted", !.ins = {ref}]]
  /\ UNCHANGED <<folder, listing, table, rows, applied, connOpen, initRan,
                 initTwice, fresh, last>>

\* the commit at the exit of db.atomic(), and self.db.close(): the rows a
\* waiting DELETE was to delete and that this commit deletes are skipped by
\* it
Commit(u) ==
  /\ procs[u].pc = "inserted"
  /\ Len(applied) + Len(procs[u].plan.db.applied) <= MaxApplied
  /\ rows' = (rows \ procs[u].del) \cup procs[u].ins
  /\ applied' = applied \o procs[u].plan.db.applied
  /\ procs' = [o \in Procs |->
                 IF o = u
                 THEN Ended(procs[u].plan)
                 ELSE [procs[o] EXCEPT !.snap = @ \ procs[u].del]]
  /\ UNCHANGED <<folder, listing, table, connOpen, initRan, initTwice,
                 fresh, last>>

\* init() up to the commit of create_tables; an exception ends the
\* invocation, and the next one starts anew
InitTable ==
  /\ procs["init"].pc = "idle"
  /\ \E dbfail \in InitFailures \ {"create"} :
     \E made \in {create_tables_result(table, dbfail)} :
       /\ table' = made.table
       /\ procs' = [procs EXCEPT !["init"].pc =
                      IF made.raised THEN "idle" ELSE "created"]
  /\ UNCHANGED <<folder, listing, rows, applied, connOpen, initRan,
                 initTwice, fresh, last>>

\* init() from create on
InitRow ==
  /\ procs["init"].pc = "created"
  /\ ~InsertWaits("init", Str(0))
  /\ \E dbfail \in InitFailures \ {"create_tables"} :
     \E row \in {create_result(rows, dbfail)} :
       /\ rows' = row.rows
       /\ procs' = [procs EXCEPT !["init"].pc = "idle"]
       /\ initRan' = (initRan \/ ~row.raised)
       /\ initTwice' = (initTwice \/ (initRan /\ ~row.raised))
  /\ UNCHANGED <<folder, listing, table, applied, connOpen, fresh, last>>

NextRace ==
  \/ InitTable
  \/ InitRow
  \/ \E u \in Upgraders :
       \/ Plan(u)
       \/ Begin(u)
       \/ Migrate(u)
       \/ DeleteStart(u)
       \/ DeleteRows(u)
       \/ Insert(u)
       \/ Commit(u)

SpecRace == Init /\ [][NextRace]_vars

\* ---------------------------------------------------------- legacy engine
\* The legacy engine, src/jambi.py.  Its find_migrations, inspect, init and
\* __set_version are the same code as the current engine's, and so is its
\* loop over the batch inside db.atomic().

\* variant: the filter also keeps the migration at the current version
legacy_newer_ge(ms, current_ref) == SelectSeq(ms, LAMBDA x : x.v >= current_ref)

\* filter(lambda x: x[1] > current_ref, migrations) of the legacy upgrade
legacy_newer(ms, current_ref) == SelectSeq(ms, LAMBDA x : x.v > current_ref)

\* legacy upgrade(ref) up to the transaction: ref is only logged
legacy_upgrade_plan(found, t, db, pick) ==
  LET quiet == [db |-> db, raised |-> FALSE, exc |-> "", tx |-> FALSE,
                connOpen |-> FALSE, cur |-> 0, curNone |-> TRUE,
                invoked |-> <<>>, logs |-> {}, batch |-> <<>>]
      current == inspect_result(t, db.rows, pick)
  IN
  IF current.none
  THEN [quiet EXCEPT !.logs = current.logs \cup {"halted"}]
  ELSE
  LET seen == [quiet EXCEPT !.cur = current.v, !.curNone = FALSE,
                            !.logs = current.logs]
  IN
  IF found.raised
  THEN [seen EXCEPT !.raised = TRUE, !.exc = found.exc]
  ELSE IF found.none
  THEN [seen EXCEPT !.raised = TRUE, !.exc = "TypeError",
                    !.logs = current.logs \cup {"no_folder"}]
  ELSE
  LET batch == legacy_newer(found.list, current.v) IN
  IF Len(batch) = 0
  THEN [seen EXCEPT !.logs = current.logs \cup {"up_to_date"}]
  ELSE [seen EXCEPT !.logs = current.logs \cup {"migrating"}, !.batch = batch]

\* legacy upgrade(ref) from the plan on: the transaction over the batch, then
\* a closing inspect() that only reads
legacy_upgrade_result(plan, fail) ==
  IF Len(plan.batch) = 0 THEN plan
  ELSE
  LET run == RunMigrations(plan.batch, 1, fail,
                           [db |-> plan.db, invoked |-> <<>>, raised |-> FALSE])
      body == IF run.raised THEN run.db
              ELSE set_version(run.db, plan.batch[Len(plan.batch)].v)
  IN [plan EXCEPT !.db = atomic(plan.db, body, run.raised),
                  !.raised = run.raised,
                  !.exc = IF run.raised THEN "MigrationError" ELSE "",
                  !.tx = TRUE,
                  !.connOpen = run.raised,
                  !.invoked = run.invoked]

\* the refs a caller may pass to the legacy upgrade: none, a word, a number
LegacyRefs == {NoneRef, <<"x">>, Str(0)}

legacy_upgrade ==
  /\ Ready
  /\ \E arg \in LegacyRefs :
     \E pick \in Picks(rows) :
     \E imp \in IF inspect_result(table, rows, pick).none
                 THEN {0} ELSE ImportFailures(listing) :
     \E found \in {find_migrations(folder, listing, imp)} :
       \E plan \in {legacy_upgrade_plan(found, table,
                                       [rows |-> rows, applied |-> applied], pick)} :
       \E fail \in Failures(Len(plan.batch)) :
       \E r \in {legacy_upgrade_result(plan, fail)} :
         /\ Len(r.db.applied) <= MaxApplied
         /\ rows' = r.db.rows
         /\ applied' = r.db.applied
         /\ connOpen' = r.connOpen
         /\ last' = [NoOp EXCEPT !.op = "legacy_upgrade", !.arg = arg,
                                 !.ref = arg,
                                 !.raised = r.raised, !.exc = r.exc,
                                 !.logs = r.logs,
                                 !.cur = r.cur, !.curNone = r.curNone,
                                 !.invoked = r.invoked, !.tx = r.tx,
                                 !.prev = last.prev]
         /\ UNCHANGED <<folder, listing, table, initRan, initTwice, fresh, procs>>

\* the legacy engine's operations on a database
NextLegacy == init \/ inspect \/ legacy_upgrade \/ exit

SpecLegacy == Init /\ [][NextLegacy]_vars

\* ------------------------------------------------------------ properties
\* the migrations discovery returns in the current folder when no file's
\* code raises
Discovered == find_migrations(folder, listing, 0).list

\* the committed application of each migration of ms, in order
Full(ms) == [i \in 1..Len(ms) |-> [n |-> ms[i].n, v |-> ms[i].v, full |-> TRUE]]

\* the names of the migrations of ms, in order
NamesOf(ms) == [i \in 1..Len(ms) |-> ms[i].n]

\* no two migrations of ms share a version
DistinctVersions(ms) ==
  \A i, j \in 1..Len(ms) : i # j => ms[i].v # ms[j].v

\* the operation left the database as it was and opened no transaction
\* (an action: it compares the states before and after the operation)
Untouched ==
  /\ ~last'.tx
  /\ last'.invoked = <<>>
  /\ table' = table
  /\ rows' = rows
  /\ applied' = applied

\* C1: when a migration of the batch fails inside upgrade's transaction, the
\* stored rows and the committed applications are what they were before the
\* call, whichever migration failed and in whichever phase.
C1_Atomicity ==
  [][(last'.op = "upgrade" /\ last'.tx /\ last'.raised)
       => (rows' = rows /\ applied' = applied /\ table' = table)]_vars

\* a batch of two failed at its second migration, after the first had been
\* applied inside the transaction
C1_Witness ==
  /\ last.op = "upgrade" /\ last.tx /\ last.raised
  /\ Len(last.invoked) = 2
  /\ Cardinality(rows) = 1

\* C2 as stated: for distinct versions v1 < ... < vn (n >= 1) and a database
\* holding the single row "0", upgrade("latest") that does not fail stores vn
\* and applies every discovered migration once, in ascending order.
C2_Original ==
  [][(/\ last'.op = "upgrade" /\ last'.ref = LatestRef /\ ~last'.raised
      /\ table /\ rows = {Str(0)}
      /\ folder = "dir" /\ Len(Discovered) >= 1 /\ DistinctVersions(Discovered))
       => (/\ rows' = {Str(latest_ref(Discovered))}
           /\ last'.invoked = NamesOf(Discovered)
           /\ applied' = applied \o Full(Discovered))]_vars

\* C2 amended: the same, for migrations whose versions are all at least 1
\* (a migration of version 0 is never newer than the initial version 0).
C2_UpgradeLatest ==
  [][(/\ last'.op = "upgrade" /\ last'.ref = LatestRef /\ ~last'.raised
      /\ table /\ rows = {Str(0)}
      /\ folder = "dir" /\ Len(Discovered) >= 1 /\ DistinctVersions(Discovered)
      /\ \A i \in 1..Len(Discovered) : Discovered[i].v >= 1)
       => (/\ rows' = {Str(latest_ref(Discovered))}
           /\ last'.invoked = NamesOf(Discovered)
           /\ applied' = applied \o Full(Discovered))]_vars

\* upgrade("latest") from version 0 has applied two migrations of distinct
\* versions, listed in descending order, and stored the higher version
C2_Witness ==
  /\ last.op = "upgrade" /\ last.ref = LatestRef /\ last.tx /\ ~last.raised
  /\ ~last.curNone /\ last.cur = 0
  /\ Len(listing) = 2 /\ Len(Discovered) = 2
  /\ CollectMigrations(listing, 1, 0).list[1].v
       > CollectMigrations(listing, 1, 0).list[2].v
  /\ applied = Full(Discovered)
  /\ rows = {Str(Discovered[2].v)}

\* C3 as stated: on a database that started without a version table, the
\* table holds no row before init has run and exactly one row afterwards.
C3_RowCount ==
  fresh => IF initRan THEN Cardinality(rows) = 1 ELSE Cardinality(rows) = 0

\* C4 as stated: for a folder of migrations with distinct versions, no
\* migration is committed more than once and the committed applications are
\* in strictly increasing version order.
C4_ExactlyOnce ==
  (fresh /\ DistinctVersions(Discovered))
    => \A i, j \in 1..Len(applied) : i < j => applied[i].v < applied[j].v

\* C5 as stated, on a database that started without a version table and
\* does not fail: an init that directly follows an init does not raise,
\* reports "already initialized", changes nothing and leaves the single
\* row "0".
C5_InitTwice ==
  [][(/\ fresh /\ last.prev = "init"
      /\ last'.op = "init" /\ last'.exc # "DatabaseError")
       => (/\ ~last'.raised
           /\ last'.logs = {"already_initialized"}
           /\ rows' = rows
           /\ rows' = {Str(0)})]_vars

\* C6: when the version upgrade reads is greater than the highest discovered
\* version (0 with no migration) and discovery does not raise, upgrade with
\* a valid target reports that the database is ahead, opens no transaction,
\* invokes no migration and leaves the table and the committed applications
\* unchanged.
C6_VersionAhead ==
  [][(/\ last'.op = "upgrade" /\ ValidRef(last'.ref)
      /\ folder = "dir" /\ last'.exc # "ImportError"
      /\ ~last'.curNone /\ Str(last'.cur) \in rows
      /\ last'.cur > latest_ref(Discovered))
       => (/\ "ahead" \in last'.logs
           /\ ~last'.raised
           /\ Untouched)]_vars

\* an upgrade to "latest" found the stored version 2 ahead of a folder whose
\* highest migration is 1
C6_Witness ==
  /\ last.op = "upgrade" /\ last.ref = LatestRef
  /\ "ahead" \in last.logs
  /\ ~last.curNone /\ last.cur = 2 /\ rows = {Str(2)}
  /\ Len(Discovered) >= 1 /\ latest_ref(Discovered) = 1

\* C7: an upgrade with an integer target <= V that directly follows an
\* upgrade that committed and left the version at V opens no transaction,
\* invokes no migration and leaves the version at V, also when migrations
\* newer than V are on disk (and discovery does not raise).
C7_UpgradeIdempotent ==
  [][(/\ last.prev = "upgraded"
      /\ last'.op = "upgrade" /\ IsInt(last'.ref)
      /\ last'.exc # "ImportError"
      /\ \A s \in rows : IsInt(s) /\ IntOf(last'.ref) <= IntOf(s))
       => (~last'.raised /\ Untouched)]_vars

\* an upgrade to the stored version followed a committed upgrade, with a
\* newer migration on disk, and did nothing
C7_Witness ==
  /\ last.op = "upgrade" /\ last.prev = "upgraded" /\ IsInt(last.ref)
  /\ ~last.tx /\ ~last.raised
  /\ rows = {last.ref}
  /\ latest_ref(Discovered) > IntOf(last.ref)
  /\ Len(applied) >= 1

\* the migrations with c < version <= t, in discovery's order
Between(ms, c, t) == SelectSeq(ms, LAMBDA x : c < x.v /\ x.v <= t)

\* C8: an upgrade with integer target t that read the stored version c and
\* did not raise has invoked and committed exactly the discovered migrations
\* with c < version <= t, in ascending order, and then holds the single row
\* of the highest version of that batch (no transaction and no change when
\* the batch is empty).
C8_BoundedUpgrade ==
  [][(/\ last'.op = "upgrade" /\ IsInt(last'.ref) /\ ~last'.raised
      /\ ~last'.curNone)
       => LET batch == Between(Discovered, last'.cur, IntOf(last'.ref)) IN
          /\ last'.invoked = NamesOf(batch)
          /\ applied' = applied \o Full(batch)
          /\ last'.tx = (Len(batch) > 0)
          /\ rows' = IF Len(batch) > 0 THEN {Str(batch[Len(batch)].v)} ELSE rows]_vars

\* upgrade(2) from version 0 over the versions 1 and 3 (or 10) applied the
\* one migration below the target and stored 1, not 2
C8_Witness ==
  /\ last.op = "upgrade" /\ last.ref = Str(2) /\ last.tx /\ ~last.raised
  /\ ~last.curNone /\ last.cur = 0
  /\ Len(Discovered) = 2 /\ Discovered[1].v = 1 /\ Discovered[2].v > 2
  /\ rows = {Str(1)}
  /\ Len(applied) = 1

\* C9 as stated: with a folder that can be listed and files that can be
\* imported, latest() does not raise and returns 0 when no migration is
\* discovered, else the highest discovered version.
C9_Latest ==
  (last.op = "latest" /\ folder = "dir" /\ last.exc # "ImportError")
    => (~last.raised /\ ~last.retNone /\ last.ret = latest_ref(Discovered))

\* C10: when the version table is absent or holds no row, upgrade with a
\* valid target reports that the database cannot be inspected, opens no
\* transaction, invokes no migration and creates or changes no row.
C10_UpgradeBeforeInit ==
  [][(/\ last'.op = "upgrade" /\ ValidRef(last'.ref)
      /\ (~table \/ rows = {}))
       => (/\ "unable_to_inspect" \in last'.logs
           /\ ~last'.raised
           /\ last'.curNone
           /\ Untouched)]_vars

\* an upgrade to "latest" ran on a database without a version table while
\* a migration was on disk
C10_Witness ==
  /\ last.op = "upgrade" /\ last.ref = LatestRef
  /\ ~table /\ rows = {}
  /\ Len(Discovered) >= 1
  /\ "unable_to_inspect" \in last.logs

\* C11 as stated: when the migrations folder does not exist, latest and
\* upgrade (valid target, initialized database) report the missing folder
\* and end without raising.
C11_MissingFolder ==
  (/\ folder = "missing"
   /\ \/ last.op = "latest"
      \/ last.op = "upgrade" /\ ValidRef(last.ref) /\ ~last.curNone)
    => ("no_folder" \in last.logs /\ ~last.raised)

\* C13 as stated: when init, inspect or upgrade has ended, by a return or by
\* an exception, no database connection it opened is still open.
C13_ConnectionReleased ==
  last.op \in {"init", "inspect", "upgrade"} => ~connOpen

\* C12: an absent target and 'latest' resolve to the highest discovered
\* version and a string that int() reads to its integer: an upgrade that
\* read the version c and did not raise has invoked exactly the migrations
\* with c < version <= the resolved target.  Any other target makes upgrade
\* report that it cannot parse it and return without reading the version,
\* listing the folder, opening a transaction or changing anything.
C12_TargetNormalization ==
  [][(last'.op = "upgrade")
       => LET a == last'.arg
              asLatest == a \in {NoneRef, <<>>, LatestRef}
          IN IF asLatest \/ IsInt(a)
             THEN /\ "unable_to_parse" \notin last'.logs
                  /\ (~last'.raised /\ ~last'.curNone /\ folder = "dir")
                       => LET t == IF asLatest THEN latest_ref(Discovered)
                                   ELSE IntOf(a)
                          IN last'.invoked
                               = NamesOf(Between(Discovered, last'.cur, t))
             ELSE /\ last'.logs = {"unable_to_parse"}
                  /\ last'.curNone
                  /\ ~last'.raised
                  /\ connOpen' = FALSE
                  /\ Untouched]_vars

\* an upgrade without a target applied the one migration on disk, of
\* version 13 (its second digit not an ASCII one), from version 0
C12_Witness ==
  /\ last.op = "upgrade" /\ last.arg = NoneRef
  /\ last.tx /\ ~last.raised /\ ~last.curNone /\ last.cur = 0
  /\ Len(last.invoked) = 1
  /\ rows = {<<"1", "3">>}

\* the listed names that carry a version: the prefix, a digit right after
\* it, and the suffix
Parseable(l) ==
  {k \in 1..Len(l) :
     /\ Len(l[k]) >= 3
     /\ l[k][1] = "version_"
     /\ IsDigit(l[k][2])
     /\ l[k][Len(l[k])] = ".py"}

\* n reads as the prefix followed by decimal digits of value v and no
\* further digit
NameHasVersion(n, v) ==
  \E k \in 2..Len(n) :
    /\ \A i \in 2..k : IsDigit(n[i])
    /\ (k = Len(n) \/ ~IsDigit(n[k + 1]))
    /\ DigitsValue(SubSeq(n, 2, k)) = v

\* C14: whatever the listing order, a call of find_migrations that does not
\* raise returns exactly the listed names that carry a version, each with
\* the integer value of its digits, in ascending integer order, and
\* migrations of equal version stay in the order in which they were listed.
C14_DiscoveryOrder ==
  (last.op = "find_migrations" /\ folder = "dir" /\ ~last.raised) =>
    LET D == last.found
        P == Parseable(listing)
    IN /\ Len(D) = Cardinality(P)
       /\ \A k \in P : \E i \in 1..Len(D) : D[i].n = StripPy(listing[k])
       /\ \A i \in 1..Len(D) : NameHasVersion(D[i].n, D[i].v)
       /\ \A i, j \in 1..Len(D) : i < j => D[i].v <= D[j].v
       /\ \A i, j \in 1..Len(D) :
            (i < j /\ D[i].v = D[j].v)
              => \E a, b \in P : /\ a < b
                                 /\ StripPy(listing[a]) = D[i].n
                                 /\ StripPy(listing[b]) = D[j].n

\* find_migrations returned two migrations of version 1 in the order in
\* which the folder listed them
C14_Witness ==
  /\ last.op = "find_migrations" /\ ~last.raised
  /\ listing = << <<"version_", "1", "x", ".py">>, <<"version_", "1", ".py">> >>
  /\ NamesOf(last.found) = << <<"version_", "1", "x">>, <<"version_", "1">> >>

\* C15: inspect never raises and leaves the table, its rows and the
\* committed applications unchanged, and its outcome tells three cases
\* apart: no table or no row (result None, a hint to run init or that the
\* database has not been migrated, no error), a parseable row N (result N),
\* and an unparsable row (result None and the error that the version is not
\* valid).
C15_InspectOutcomes ==
  [][(last'.op = "inspect")
       => /\ ~last'.raised
          /\ connOpen' = FALSE
          /\ Untouched
          /\ IF ~table
             THEN last'.retNone /\ last'.logs = {"run_init"}
             ELSE IF rows = {}
             THEN last'.retNone /\ last'.logs = {"not_migrated"}
             ELSE \E s \in rows :
                    IF IsInt(s)
                    THEN /\ ~last'.retNone /\ last'.ret = IntOf(s)
                         /\ last'.logs = {"at_version"}
                    ELSE /\ last'.retNone
                         /\ "not_valid" \in last'.logs
                         /\ last'.logs \cap {"run_init", "not_migrated"} = {}]_vars

\* inspect read a table whose single row is not an integer
C15_Witness ==
  /\ last.op = "inspect"
  /\ table /\ rows = {<<"x">>}
  /\ last.retNone
  /\ "not_valid" \in last.logs

\* C16 as stated: when the table's single row is not a valid non-negative
\* integer (and the folder can be listed and its files imported), upgrade
\* with a valid target reports the invalid version and that it cannot
\* inspect the database, does not raise, opens no transaction, invokes no
\* migration and leaves the row as it is.
C16_UnparsableStored ==
  [][(/\ last'.op = "upgrade" /\ ValidRef(last'.ref)
      /\ folder = "dir" /\ last'.exc # "ImportError"
      /\ table /\ Cardinality(rows) = 1
      /\ \A s \in rows : ~(IsInt(s) /\ IntOf(s) >= 0))
       => (/\ "not_valid" \in last'.logs
           /\ "unable_to_inspect" \in last'.logs
           /\ ~last'.raised
           /\ connOpen' = FALSE
           /\ Untouched)]_vars

\* C18: on a table that holds one integer row, as it does after one init,
\* an upgrade with any target and any migration failure leaves one integer
\* row whose value is at least the value before; a target below the current
\* version changes nothing.
C18_NeverDecreases ==
  [][(/\ last'.op = "upgrade"
      /\ table /\ Cardinality(rows) = 1
      /\ \A s \in rows : IsInt(s))
       => /\ Cardinality(rows') = 1
          /\ \A s \in rows : \A n \in rows' : IsInt(n) /\ IntOf(n) >= IntOf(s)
          /\ (IsInt(last'.ref) /\ \A s \in rows : IntOf(last'.ref) < IntOf(s))
               => (rows' = rows /\ applied' = applied)]_vars

\* upgrade(1) ran at the stored version 2 with the migration of version 1
\* discovered and one of a higher version applied before, and the stored
\* version is still 2
C18_Witness ==
  /\ last.op = "upgrade" /\ last.ref = Str(1)
  /\ ~last.curNone /\ last.cur = 2
  /\ rows = {Str(2)}
  /\ fresh /\ Len(applied) >= 1
  /\ Len(Discovered) = 2 /\ Discovered[1].v = 1 /\ Discovered[2].v = 2
  /\ ~last.tx

\* the names of the committed applications
AppliedNames == {applied[i].n : i \in 1..Len(applied)}

\* the names of the discovered migrations of version <= v
NamesUpTo(ms, v) == {ms[i].n : i \in {k \in 1..Len(ms) : ms[k].v <= v}}

\* C19 as stated: on a database that started without a table and was
\* initialized once, with discovered migrations of distinct versions, the set of
\* migrations whose operations are committed is the set of discovered
\* migrations with version <= the stored version.
C19_Original ==
  (/\ fresh /\ initRan /\ ~initTwice
   /\ DistinctVersions(Discovered))
    => \A s \in rows : AppliedNames = NamesUpTo(Discovered, IntOf(s))

\* C19 amended: the same, for migrations whose versions are all at least 1
\* (a migration of version 0 is never applied, at any stored version).
C19_MarkerRecordsApplied ==
  (/\ fresh /\ initRan /\ ~initTwice
   /\ DistinctVersions(Discovered)
   /\ \A i \in 1..Len(Discovered) : Discovered[i].v >= 1)
    => \A s \in rows : AppliedNames = NamesUpTo(Discovered, IntOf(s))

\* after a failed upgrade and a committed upgrade to 1, the stored version
\* is 1 and only the migration of version 1 is committed, a newer one being
\* on disk
C19_Witness ==
  /\ fresh /\ initRan /\ ~initTwice /\ rows = {Str(1)}
  /\ last.op = "upgrade" /\ last.tx /\ last.raised
  /\ Len(Discovered) = 2 /\ Discovered[1].v = 1 /\ Discovered[2].v > 1
  /\ Len(applied) = 1

\* C20: with a folder that can be listed, a legacy upgrade with any ref has
\* the outcome of the current engine's upgrade('latest') run on the same
\* database with the same row read, the same failing import and the same
\* migration failure: the same version read, the same migrations invoked in
\* the same order, the same exception or none, the same rows and the same
\* committed applications.
C20_LegacyAgrees ==
  [][(last'.op = "legacy_upgrade" /\ folder = "dir")
       => \E imp \in ImportFailures(listing) :
          \E found \in {find_migrations(folder, listing, imp)} :
          \E pick \in Picks(rows) :
          \E plan \in {upgrade_plan(LatestRef, found, table,
                                    [rows |-> rows, applied |-> applied], pick)} :
          \E fail \in Failures(Len(plan.batch)) :
          \E now \in {upgrade_result(plan, fail)} :
            /\ now.cur = last'.cur
            /\ now.curNone = last'.curNone
            /\ now.exc = last'.exc
            /\ now.invoked = last'.invoked
            /\ now.raised = last'.raised
            /\ now.tx = last'.tx
            /\ now.db.rows = rows'
            /\ now.db.applied = applied']_vars

\* a legacy upgrade with a ref the current engine rejects applied two
\* migrations from version 0 and stored the higher version
C20_Witness ==
  /\ last.op = "legacy_upgrade" /\ last.arg = <<"x">>
  /\ last.tx /\ ~last.raised /\ ~last.curNone /\ last.cur = 0
  /\ Len(last.invoked) = 2
  /\ Len(Discovered) = 2
  /\ rows = {Str(Discovered[2].v)}

\* C17: nothing stops an invocation between reading the version and its
\* writes: an invocation that has planned a batch enters its transaction
\* with that batch whatever the other invocation has done since; in the
\* transaction it invokes the migrations of that batch, in order, whatever
\* the stored version is by then; and its commit adds the applications of
\* the whole batch to the committed ones.
C17_NoRecheck ==
  [][\A u \in Upgraders :
       /\ (procs[u].pc = "planned" /\ procs'[u] # procs[u])
            => (procs'[u].pc = "tx" /\ procs'[u].plan = procs[u].plan)
       /\ (procs[u].pc = "tx" /\ procs'[u] # procs[u])
            => \/ procs'[u].pc = "done" /\ procs'[u].plan.raised
               \/ /\ procs'[u].pc = "migrated"
                  /\ procs'[u].plan.batch = procs[u].plan.batch
                  /\ procs'[u].plan.invoked = NamesOf(procs[u].plan.batch)
                  /\ procs'[u].plan.db.applied = Full(procs[u].plan.batch)
       /\ (procs[u].pc = "inserted" /\ procs'[u].pc = "done")
            => applied' = applied \o Full(procs[u].plan.batch)]_vars

\* both invocations have read the same version of an initialized database,
\* planned the same batch and run its migrations in their transactions
C17_Witness ==
  /\ procs["u1"].pc = "migrated" /\ procs["u2"].pc = "migrated"
  /\ ~procs["u1"].plan.curNone
  /\ procs["u1"].plan.cur = procs["u2"].plan.cur
  /\ procs["u1"].plan.batch = procs["u2"].plan.batch
  /\ Len(procs["u1"].plan.batch) >= 1
  /\ initRan

====
